---- MODULE Spec2Model ----
(***************************************************************************)
(* The /upload endpoint of app.py: one Flask handler that downloads a      *)
(* spreadsheet, extracts a ten-row block, looks up the user's admin        *)
(* references, adds one document to the "data" collection and deletes the  *)
(* source object from the storage bucket.                                  *)
(*                                                                         *)
(* The process state is the Firebase app registry, the credential file in  *)
(* the working directory, the "data" collection and the bucket; every      *)
(* request thread has its own locals and its own position in the handler.  *)
(***************************************************************************)
EXTENDS Integers, Sequences, FiniteSets, TLC

(***************************************************************************)
(* Cells and Python values.  A spreadsheet cell or a dictionary value is a *)
(* record of a kind and a payload: an integer, a float counted in halves   *)
(* (i = 5 is 2.5), a string, the missing value NaN, or Python's None.      *)
(***************************************************************************)
IntV(n) == [k |-> "int", i |-> n, s |-> ""]

FltV(h) == [k |-> "flt", i |-> h, s |-> ""]

StrV(x) == [k |-> "str", i |-> 0, s |-> x]

NaN == [k |-> "nan", i |-> 0, s |-> ""]

NoneV == [k |-> "none", i |-> 0, s |-> ""]

\* An optional result: <<>> is None, <<v>> is the value v.
None == <<>>

Some(v) == <<v>>

\* The decimal numerals Python prints for the integers the sheets contain.
Numerals == <<"0", "1", "2", "3", "4", "5", "6", "7", "8", "9">>

DecStr(n) == IF n >= 0 /\ n < Len(Numerals) THEN Numerals[n + 1]
             ELSE IF n < 0 /\ -n < Len(Numerals) THEN "-" \o Numerals[(-n) + 1]
             ELSE "#"

\* Truncation toward zero of h halves, as int() and astype(int) do.
RoundHalfUp(h) == (h + 1) \div 2

Trunc(h) == IF h >= 0 THEN h \div 2 ELSE -((-h) \div 2)

\* Series.astype(str) on one cell.
AsStr(c) == CASE c.k = "str" -> c.s
              [] c.k = "int" -> DecStr(c.i)
              [] c.k = "flt" -> DecStr(Trunc(c.i)) \o (IF c.i % 2 = 0 THEN ".0" ELSE ".5")
              [] c.k = "nan" -> "nan"
              [] OTHER -> "None"

\* int() of a string: numerals parse, anything else raises.
IsNumeral(s) == \E n \in 0..(Len(Numerals) - 1) : Numerals[n + 1] = s

ParseInt(s) == CHOOSE n \in 0..(Len(Numerals) - 1) : Numerals[n + 1] = s

\* Series.astype(int) on one cell: does the conversion raise?
IntRaises(c) == \/ c.k = "nan"
                \/ c.k = "none"
                \/ c.k = "str" /\ ~IsNumeral(c.s)

\* Series.astype(int) on one cell that converts.
AsInt(c) == CASE c.k = "int" -> c.i
              [] c.k = "flt" -> Trunc(c.i)
              [] c.k = "str" -> ParseInt(c.s)
              [] OTHER -> 0

(***************************************************************************)
(* Dictionaries are functions from key strings to values.                  *)
(***************************************************************************)
EmptyDict == [k \in {} |-> NoneV]

Last(S) == CHOOSE i \in S : \A j \in S : j <= i

\* dict(zip(fields, values)): a later pair overwrites an earlier one.
DictZip(fields, values) ==
    LET n == IF Len(fields) <= Len(values) THEN Len(fields) ELSE Len(values)
        keys == {fields[i] : i \in 1..n}
    IN  [key \in keys |-> values[Last({i \in 1..n : fields[i] = key})]]

\* d[key] = v
DictSet(d, key, v) == [x \in DOMAIN d \cup {key} |-> IF x = key THEN v ELSE d[x]]

\* d.update(e)
DictUpdate(d, e) == [x \in DOMAIN d \cup DOMAIN e |-> IF x \in DOMAIN e THEN e[x] ELSE d[x]]

\* d.get(key, None)
DictGet(d, key) == IF key \in DOMAIN d THEN d[key] ELSE NoneV

(***************************************************************************)
(* The block push_data_to_firestore reads: rows 3..12 of the DataFrame,    *)
(* labels in column 1 and values in column 7.  A DataFrame is modelled by  *)
(* these two column slices.                                                *)
(***************************************************************************)
FirstRow == 3

StopRow == 13

LabelCol == 1

ValueCol == 7

Rows == FirstRow..(StopRow - 1)

NumRows == StopRow - FirstRow

\* A DataFrame: df[column][row] for the two columns and the rows the code reads.
Frame(labels, values) ==
    [c \in {LabelCol, ValueCol} |->
        [r \in Rows |-> IF c = LabelCol THEN labels[r - FirstRow + 1]
                                         ELSE values[r - FirstRow + 1]]]

NoFrame == [c \in {} |-> NaN]

\* df.iloc[3:13, col] as a list
ILoc(df, col) == [i \in 1..NumRows |-> df[col][FirstRow + i - 1]]

\* df.iloc[3:13, 1].astype(str).tolist()
Fields(df) == [i \in 1..NumRows |-> AsStr(ILoc(df, LabelCol)[i])]

\* df.iloc[3:13, 7].astype(int) raises when one cell does not convert.
ValuesRaise(df) == \E i \in 1..NumRows : IntRaises(ILoc(df, ValueCol)[i])

\* df.iloc[3:13, 7].astype(int).tolist()
Values(df) == [i \in 1..NumRows |-> IntV(AsInt(ILoc(df, ValueCol)[i]))]

\* data = dict(zip(fields, values))
ExtractedRecord(df) == DictZip(Fields(df), Values(df))

\* The document push_data_to_firestore composes (lines 112-122).
Timestamp == StrV("utcnow().isoformat()")

FacilityRef(user_id) == StrV("/users/" \o user_id)

ComposeData(user_id, df, admin_references, current_month) ==
    LET d1 == ExtractedRecord(df)
        d2 == DictSet(d1, "facilityAdminRef", FacilityRef(user_id))
        d3 == DictUpdate(d2, admin_references)
        d4 == DictSet(d3, "timestamp", Timestamp)
    IN  DictSet(d4, "currentMonth", StrV(current_month))

(***************************************************************************)
(* URLs are sequences of tokens: "/", "?", "%2F" and runs of other         *)
(* characters.  extract_file_path searches r'/b/[^/]+/o/(.+?)\?'.          *)
(***************************************************************************)
\* Does the pattern match with its "/b/" starting at token i and its closing "?" at q?
MatchAt(u, i, q) ==
    /\ i >= 1 /\ i + 2 <= Len(u)
    /\ u[i] = "/" /\ u[i + 1] = "b" /\ u[i + 2] = "/"
    /\ \E j \in (i + 4)..Len(u) :
          /\ \A m \in (i + 3)..(j - 1) : u[m] # "/"
          /\ u[j] = "/"
          /\ j + 2 <= Len(u) /\ u[j + 1] = "o" /\ u[j + 2] = "/"
          /\ q >= j + 4 /\ q <= Len(u) /\ u[q] = "?"
          /\ \A m \in (j + 4)..(q - 1) : u[m] # "?"

UrlMatches(u) == \E i \in 1..Len(u) : \E q \in 1..Len(u) : MatchAt(u, i, q)

\* The tokens of group 1 of the leftmost match.
GroupOne(u) ==
    LET i == CHOOSE a \in 1..Len(u) :
                 /\ \E q \in 1..Len(u) : MatchAt(u, a, q)
                 /\ \A b \in 1..(a - 1) : \A q \in 1..Len(u) : ~MatchAt(u, b, q)
        q == CHOOSE c \in 1..Len(u) : MatchAt(u, i, c)
        j == CHOOSE c \in (i + 4)..Len(u) :
                 /\ \A m \in (i + 3)..(c - 1) : u[m] # "/"
                 /\ u[c] = "/"
    IN  SubSeq(u, j + 3, q - 1)

\* file_path.replace('%2F', '/')
DecodeSlashes(p) == [m \in 1..Len(p) |-> IF p[m] = "%2F" THEN "/" ELSE p[m]]

\* extract_file_path: the object path, or None.
extract_file_path(public_url) ==
    IF UrlMatches(public_url) THEN Some(DecodeSlashes(GroupOne(public_url))) ELSE None

(***************************************************************************)
(* The inputs the model draws from.                                        *)
(***************************************************************************)
\* At most this many requests are received in one run of the process.
MaxRequests == 2

Threads == {"t1", "t2"}

MainThread == "t1"

\* Two template sheets: text labels and the values of a filled form, and a
\* sheet whose label column holds the numbers 0..9.
BaseValues == <<IntV(10), IntV(20), IntV(30), IntV(40), IntV(50),
                IntV(5), IntV(6), IntV(7), IntV(8), IntV(9)>>

TextLabels == [i \in 1..NumRows |-> StrV("f" \o DecStr(i - 1))]

NumberLabels == [i \in 1..NumRows |-> IntV(i - 1)]

LabelCells == {StrV("f0"), StrV("1"), NaN, StrV("timestamp"), StrV("districtAdminRef")}

ValueCells == {NaN, IntV(-1), FltV(5), FltV(-1), StrV("x")}

\* The sequence q with element i replaced by v.
Replace(q, i, v) == [m \in 1..Len(q) |-> IF m = i THEN v ELSE q[m]]

\* A template with the label cell or the value cell of one row replaced.
SheetsOf(labels, i) ==
    {Frame(Replace(labels, i, l), BaseValues) : l \in LabelCells}
    \cup {Frame(labels, Replace(BaseValues, i, v)) : v \in ValueCells}
    \cup {Frame(labels, BaseValues)}

AllSheets == UNION {SheetsOf(labels, i) : labels \in {TextLabels, NumberLabels}, i \in 1..NumRows}

FewSheets == {Frame(TextLabels, BaseValues),
              Frame(TextLabels, Replace(BaseValues, NumRows, IntV(-1))),
              Frame(TextLabels, Replace(BaseValues, 1, NaN))}

UrlA == <<"https:", "/", "/", "firebasestorage.googleapis.com", "/", "v0", "/", "b", "/",
          "your-bucket-name.appspot.com", "/", "o", "/",
          "uploads", "%2F", "abc123", "%2F", "jan.xlsx", "?", "alt=media">>

UrlB == <<"https:", "/", "/", "firebasestorage.googleapis.com", "/", "v0", "/", "b", "/",
          "your-bucket-name.appspot.com", "/", "o", "/",
          "uploads", "%2F", "u2", "%2F", "jan.xlsx", "?", "alt=media">>

UrlPlain == <<"https:", "/", "/", "example.com", "/", "files", "/", "jan.xlsx">>

UrlNoQuery == <<"https:", "/", "/", "firebasestorage.googleapis.com", "/", "v0", "/", "b", "/",
                "your-bucket-name.appspot.com", "/", "o", "/", "uploads", "%2F", "jan.xlsx">>

ObjectA == <<"uploads", "/", "abc123", "/", "jan.xlsx">>

ObjectB == <<"uploads", "/", "u2", "/", "jan.xlsx">>

\* The (user_id, file_url) pairs requests carry.
Uploads == {<<"abc123", UrlA>>, <<"u2", UrlB>>, <<"ghost", UrlPlain>>, <<"abc123", UrlNoQuery>>}

RequiredKeys == {"user_id", "file_url", "current_month"}

\* What request.get_json() is given: no body, a body that is not JSON, the
\* JSON literal null, or a JSON object with some of the keys.
Bodies ==
    {[kind |-> k, keys |-> {}, user_id |-> "", file_url |-> <<>>, current_month |-> ""] :
        k \in {"absent", "malformed", "null"}}
    \cup
    {[kind |-> "json", keys |-> ks,
      user_id |-> IF "user_id" \in ks THEN up[1] ELSE "",
      file_url |-> IF "file_url" \in ks THEN up[2] ELSE <<>>,
      current_month |-> IF "current_month" \in ks THEN "2024-01" ELSE ""] :
        ks \in SUBSET RequiredKeys, up \in Uploads}

\* The "users" collection.
UsersCollection ==
    [u \in {"abc123", "u2"} |->
        IF u = "abc123"
        THEN [x \in {"districtAdminRef"} |-> StrV("/districts/5")]
        ELSE [x \in {"subDistrictAdminRef", "districtAdminRef", "stateAdminRef"} |->
                 StrV("/admins/" \o x)]]

(***************************************************************************)
(* State.                                                                  *)
(***************************************************************************)
VARIABLES
    threaded,          \* does the server run handlers concurrently?
    creds,             \* FIREBASE_CREDENTIALS: "missing", "valid" or "badjson"
    apps,              \* firebase_admin._apps is non-empty
    credFile,          \* temp_firebase_creds.json in the working directory
    data,              \* the "data" collection, in order of addition
    bucket,            \* the objects in the storage bucket
    served,            \* requests received so far
    pc,                \* each thread's position in upload_data
    reqno,             \* the number of the request a thread serves
    body,              \* the request body
    handle,            \* the inode of the file the thread opened
    df,                \* local df
    admin_references,  \* local admin_references
    doc_id,            \* local doc_id
    resp,              \* the response returned
    fx                 \* what the request has done so far

shared == <<threaded, creds, apps, credFile, data, bucket, served>>

vars == <<threaded, creds, apps, credFile, data, bucket, served,
          pc, reqno, body, handle, df, admin_references, doc_id, resp, fx>>

NoFile == [exists |-> FALSE, ino |-> 0, content |-> ""]

NoBody == [kind |-> "none", keys |-> {}, user_id |-> "", file_url |-> <<>>, current_month |-> ""]

NoResp == [status |-> 0, key |-> "", text |-> "", document_id |-> None]

NoFx == [init |-> FALSE, wrote_file |-> FALSE, init_returned |-> FALSE, fetch |-> FALSE,
         lookup |-> FALSE, db_error |-> FALSE, write |-> FALSE, delete |-> "none"]

\* jsonify({"error": text}), status
ErrorResp(text, status) == [status |-> status, key |-> "error", text |-> text, document_id |-> None]

\* jsonify({"message": text, "document_id": doc_id}), 200
OkResp(text, id) == [status |-> 200, key |-> "message", text |-> text, document_id |-> id]

InitWith(mode) ==
    /\ threaded = mode
    /\ creds \in {"missing", "valid", "badjson"}
    /\ apps = FALSE
    /\ credFile = NoFile
    /\ data = <<>>
    /\ bucket = {ObjectA, ObjectB}
    /\ served = 0
    /\ pc = [t \in Threads |-> "idle"]
    /\ reqno = [t \in Threads |-> 0]
    /\ body = [t \in Threads |-> NoBody]
    /\ handle = [t \in Threads |-> 0]
    /\ df = [t \in Threads |-> NoFrame]
    /\ admin_references = [t \in Threads |-> EmptyDict]
    /\ doc_id = [t \in Threads |-> None]
    /\ resp = [t \in Threads |-> NoResp]
    /\ fx = [t \in Threads |-> NoFx]

\* One handler at a time (app.run's default for the development server is
\* threaded; a single-worker deployment serves one request at a time).
Init == InitWith(FALSE)

InitThreaded == InitWith(TRUE)

\* Leave the handler with a response.
Return(t, r) ==
    /\ resp' = [resp EXCEPT ![t] = r]
    /\ pc' = [pc EXCEPT ![t] = "done"]

Goto(t, where) ==
    /\ pc' = [pc EXCEPT ![t] = where]
    /\ UNCHANGED resp

\* The workbooks the HTTP collaborator serves to request number n.  The
\* first request of a one-at-a-time server ranges over every sheet; later
\* and concurrent requests over a few.
SheetsServed(n) == IF ~threaded /\ n = 1 THEN AllSheets ELSE FewSheets

Mark(t, field, v) == fx' = [fx EXCEPT ![t][field] = v]

(***************************************************************************)
(* upload_data, lines 173-181: parse the body and check the parameters.    *)
(***************************************************************************)
MissingParameters(b) ==
    \/ b.kind # "json"
    \/ b.keys = {}
    \/ "user_id" \notin b.keys
    \/ "file_url" \notin b.keys

\* The response lines 175-181 end with, or None when the handler goes on.
\* raised: request.get_json() raised.
ParseOutcome(b, raised) ==
    IF raised THEN Some(ErrorResp("get_json", 500))
    ELSE IF MissingParameters(b)
         THEN Some(ErrorResp("Missing required parameters: user_id and file_url", 400))
    ELSE IF "current_month" \notin b.keys THEN Some(ErrorResp("'current_month'", 500))
    ELSE None

Receive(t) ==
    /\ pc[t] = "idle"
    /\ served < MaxRequests
    /\ threaded \/ t = MainThread
    /\ \E b \in Bodies, version_raises \in BOOLEAN :
          \* a body that is not JSON raises; a request without a body raises
          \* or yields None, depending on the Flask release
          LET raised == b.kind = "malformed" \/ (b.kind = "absent" /\ version_raises)
              out == ParseOutcome(b, raised)
          IN  /\ b.kind # "absent" => ~version_raises
              /\ served' = served + 1
              /\ reqno' = [reqno EXCEPT ![t] = served + 1]
              /\ body' = [body EXCEPT ![t] = b]
              /\ fx' = [fx EXCEPT ![t] = NoFx]
              /\ IF out = None THEN Goto(t, "init") ELSE Return(t, out[1])
    /\ UNCHANGED <<threaded, creds, apps, credFile, data, bucket>>
    /\ UNCHANGED <<handle, df, admin_references, doc_id>>

(***************************************************************************)
(* initialize_firebase, lines 19-45.  Any exception ends the function in   *)
(* the except clause, which only prints.                                   *)
(***************************************************************************)
\* open(temp_cred_path, "w"): truncate the file at the path, or create one.
OpenForWrite(file, ino) ==
    IF file.exists THEN [file EXCEPT !.content = ""]
    ELSE [exists |-> TRUE, ino |-> ino, content |-> ""]

\* Lines 23-32: read the environment, decode, open the file.
InitOpen(t) ==
    /\ pc[t] = "init"
    /\ IF creds = "missing"
       THEN /\ fx' = [fx EXCEPT ![t].init = TRUE, ![t].init_returned = TRUE]
            /\ Goto(t, "fetch")
            /\ UNCHANGED <<credFile, handle>>
       ELSE /\ credFile' = OpenForWrite(credFile, reqno[t])
            /\ handle' = [handle EXCEPT ![t] = credFile'.ino]
            /\ Mark(t, "init", TRUE)
            /\ Goto(t, "init_write")
    /\ UNCHANGED <<threaded, creds, apps, data, bucket, served>>
    /\ UNCHANGED <<reqno, body, df, admin_references, doc_id>>

\* Line 33 and the end of the with block: the write reaches the file the
\* thread opened, which is at the path unless it was removed meanwhile.
WriteThrough(file, ino, text) ==
    IF file.exists /\ file.ino = ino THEN [file EXCEPT !.content = text] ELSE file

InitWrite(t) ==
    /\ pc[t] = "init_write"
    /\ credFile' = WriteThrough(credFile, handle[t], creds)
    /\ handle' = [handle EXCEPT ![t] = 0]
    /\ Mark(t, "wrote_file", TRUE)
    /\ Goto(t, "init_check")
    /\ UNCHANGED <<threaded, creds, apps, data, bucket, served>>
    /\ UNCHANGED <<reqno, body, df, admin_references, doc_id>>

\* Line 36: if not firebase_admin._apps
InitCheckApps(t) ==
    /\ pc[t] = "init_check"
    /\ IF apps THEN Goto(t, "init_remove") ELSE Goto(t, "init_cert")
    /\ UNCHANGED shared
    /\ UNCHANGED <<reqno, body, handle, df, admin_references, doc_id, fx>>

\* credentials.Certificate(path) reads and parses the file.
CertificateLoads(file) == file.exists /\ file.content = "valid"

\* Line 37
InitCertificate(t) ==
    /\ pc[t] = "init_cert"
    /\ IF CertificateLoads(credFile)
       THEN Goto(t, "init_app") /\ UNCHANGED fx
       ELSE Goto(t, "fetch") /\ Mark(t, "init_returned", TRUE)
    /\ UNCHANGED shared
    /\ UNCHANGED <<reqno, body, handle, df, admin_references, doc_id>>

\* Lines 38-40: initialize_app raises when the default app exists.
InitApp(t) ==
    /\ pc[t] = "init_app"
    /\ IF apps
       THEN Goto(t, "fetch") /\ Mark(t, "init_returned", TRUE) /\ UNCHANGED apps
       ELSE Goto(t, "init_remove") /\ apps' = TRUE /\ UNCHANGED fx
    /\ UNCHANGED <<threaded, creds, credFile, data, bucket, served>>
    /\ UNCHANGED <<reqno, body, handle, df, admin_references, doc_id>>

\* Line 43: os.remove(temp_cred_path); it raises when the file is gone.
InitRemove(t) ==
    /\ pc[t] = "init_remove"
    /\ credFile' = NoFile
    /\ Mark(t, "init_returned", TRUE)
    /\ Goto(t, "fetch")
    /\ UNCHANGED <<threaded, creds, apps, data, bucket, served>>
    /\ UNCHANGED <<reqno, body, handle, df, admin_references, doc_id>>

(***************************************************************************)
(* fetch_excel_from_url and lines 187-189.                                 *)
(***************************************************************************)
Fetch(t) ==
    /\ pc[t] = "fetch"
    /\ Mark(t, "fetch", TRUE)
    /\ \/ \* requests.get, raise_for_status or read_excel raised
          /\ Return(t, ErrorResp("Failed to fetch Excel file", 500))
          /\ UNCHANGED df
       \/ \E sheet \in SheetsServed(reqno[t]) :
             /\ df' = [df EXCEPT ![t] = sheet]
             /\ Goto(t, "refs")
    /\ UNCHANGED shared
    /\ UNCHANGED <<reqno, body, handle, admin_references, doc_id>>

(***************************************************************************)
(* fetch_user_references, lines 68-90.                                     *)
(***************************************************************************)
RefKeys == {"subDistrictAdminRef", "districtAdminRef", "stateAdminRef"}

\* client_ok: firestore.client() found the default app; db_ok: the get worked.
fetch_user_references(uid, client_ok, db_ok) ==
    IF ~client_ok \/ ~db_ok THEN EmptyDict
    ELSE IF uid \in DOMAIN UsersCollection
         THEN [x \in RefKeys |-> DictGet(UsersCollection[uid], x)]
         ELSE EmptyDict

FetchRefs(t) ==
    /\ pc[t] = "refs"
    /\ \E db_ok \in BOOLEAN :
          /\ ~apps => db_ok
          /\ admin_references' =
                [admin_references EXCEPT ![t] = fetch_user_references(body[t].user_id, apps, db_ok)]
          /\ fx' = [fx EXCEPT ![t].lookup = TRUE, ![t].db_error = ~db_ok]
    /\ Goto(t, "push")
    /\ UNCHANGED shared
    /\ UNCHANGED <<reqno, body, handle, df, doc_id>>

(***************************************************************************)
(* push_data_to_firestore, lines 93-130, and lines 195-197.                *)
(***************************************************************************)
\* db.collection("data").add(data): one new document with a new id.  owner
\* records the request that added it.
CollectionAddTwice(coll, owner, fields) ==
    Append(Append(coll, [id |-> Len(coll) + 1, owner |-> owner, fields |-> fields]),
           [id |-> Len(coll) + 2, owner |-> owner, fields |-> fields])

CollectionAdd(coll, owner, fields) ==
    Append(coll, [id |-> Len(coll) + 1, owner |-> owner, fields |-> fields])

\* Line 196: if doc_id is None
DocIdNeverNone(id) == FALSE

DocIdIsNone(id) == id = None

Push(t) ==
    /\ pc[t] = "push"
    /\ \E add_ok \in BOOLEAN :
          LET \* firestore.client() or astype(int) raised before the add
              raised == ~apps \/ ValuesRaise(df[t])
              stored == ~raised /\ add_ok
              coll == IF stored
                      THEN CollectionAdd(data, reqno[t],
                               ComposeData(body[t].user_id, df[t], admin_references[t],
                                           body[t].current_month))
                      ELSE data
              \* doc_ref[1].id, or None from the except clause
              id == IF stored THEN Some(coll[Len(coll)].id) ELSE None
          IN  /\ raised => add_ok
              /\ data' = coll
              /\ doc_id' = [doc_id EXCEPT ![t] = id]
              /\ fx' = [fx EXCEPT ![t].write = ~raised,
                                  ![t].db_error = fx[t].db_error \/ (~raised /\ ~add_ok)]
              /\ IF DocIdIsNone(id)
                 THEN Return(t, ErrorResp("Failed to upload data to Firestore", 500))
                 ELSE Goto(t, "clean")
    /\ UNCHANGED <<threaded, creds, apps, credFile, bucket, served>>
    /\ UNCHANGED <<reqno, body, handle, df, admin_references>>

(***************************************************************************)
(* Lines 199-206: extract_file_path, delete_file and the final response.   *)
(***************************************************************************)
DeletedMessage == "Data uploaded successfully and file deleted"

\* delete_file returned, whatever blob.delete() did, and line 206 answers.
CleanRespRaising(deletion, id) ==
    IF deletion = "failed" THEN ErrorResp("404 No such object", 500)
    ELSE OkResp(DeletedMessage, id)

CleanResp(deletion, id) == OkResp(DeletedMessage, id)

Clean(t) ==
    /\ pc[t] = "clean"
    /\ LET file_path_to_delete == extract_file_path(body[t].file_url)
       IN  IF file_path_to_delete = None
           THEN /\ Return(t, ErrorResp("Failed to extract file path from URL", 400))
                /\ UNCHANGED <<bucket, fx>>
           ELSE \E allowed \in BOOLEAN :
                   \* blob.delete() raises NotFound or Forbidden; delete_file prints
                   LET deletion == IF file_path_to_delete[1] \in bucket /\ allowed
                                   THEN "deleted" ELSE "failed"
                   IN  /\ file_path_to_delete[1] \notin bucket => allowed
                       /\ bucket' = IF deletion = "deleted"
                                    THEN bucket \ {file_path_to_delete[1]} ELSE bucket
                       /\ Mark(t, "delete", deletion)
                       /\ Return(t, CleanResp(deletion, doc_id[t]))
    /\ UNCHANGED <<threaded, creds, apps, credFile, data, served>>
    /\ UNCHANGED <<reqno, body, handle, df, admin_references, doc_id>>

\* The response is sent and the thread is free for the next request.
Finish(t) ==
    /\ pc[t] = "done"
    /\ pc' = [pc EXCEPT ![t] = "idle"]
    /\ reqno' = [reqno EXCEPT ![t] = 0]
    /\ body' = [body EXCEPT ![t] = NoBody]
    /\ df' = [df EXCEPT ![t] = NoFrame]
    /\ admin_references' = [admin_references EXCEPT ![t] = EmptyDict]
    /\ doc_id' = [doc_id EXCEPT ![t] = None]
    /\ resp' = [resp EXCEPT ![t] = NoResp]
    /\ fx' = [fx EXCEPT ![t] = NoFx]
    /\ UNCHANGED shared
    /\ UNCHANGED handle

Next ==
    \E t \in Threads :
        \/ Receive(t)
        \/ InitOpen(t)
        \/ InitWrite(t)
        \/ InitCheckApps(t)
        \/ InitCertificate(t)
        \/ InitApp(t)
        \/ InitRemove(t)
        \/ Fetch(t)
        \/ FetchRefs(t)
        \/ Push(t)
        \/ Clean(t)
        \/ Finish(t)

Spec == Init /\ [][Next]_vars

SpecThreaded == InitThreaded /\ [][Next]_vars

TypeOK ==
    /\ threaded \in BOOLEAN
    /\ apps \in BOOLEAN
    /\ served \in 0..MaxRequests
    /\ \A t \in Threads : resp[t].status \in {0, 200, 400, 500}

(***************************************************************************)
(* Vocabulary of the properties.                                           *)
(***************************************************************************)
\* The documents of the "data" collection added by request number n.
DocsOf(n) == {i \in 1..Len(data) : data[i].owner = n}

\* The request of thread t stored the document its doc_id names.
Stored(t) ==
    /\ doc_id[t] # None
    /\ \E i \in DocsOf(reqno[t]) : data[i].id = doc_id[t][1]

StoredFields(t) == data[CHOOSE i \in DocsOf(reqno[t]) : data[i].id = doc_id[t][1]].fields

ValueCell(t, i) == df[t][ValueCol][FirstRow + i - 1]

LabelCell(t, i) == df[t][LabelCol][FirstRow + i - 1]

\* One of the ten value cells is missing or negative.
NullOrNegative(t) ==
    /\ df[t] # NoFrame
    /\ \E i \in 1..NumRows :
          \/ ValueCell(t, i).k = "nan"
          \/ ValueCell(t, i).k \in {"int", "flt"} /\ ValueCell(t, i).i < 0

\* All ten value cells are numbers and none is negative.
ValidBlock(t) ==
    /\ df[t] # NoFrame
    /\ \A i \in 1..NumRows : ValueCell(t, i).k \in {"int", "flt"} /\ ValueCell(t, i).i >= 0

\* n is the cell's number with its fraction dropped (cells count halves).
IsIntegerPartOf(n, c) ==
    \/ c.k = "int" /\ n = c.i
    \/ c.k = "flt" /\ 2 * n <= c.i /\ c.i < 2 * n + 2

\* Row i's label maps to row i's value, as an integer, in dictionary d.
RowIn(t, i, d) ==
    /\ AsStr(LabelCell(t, i)) \in DOMAIN d
    /\ d[AsStr(LabelCell(t, i))].k = "int"
    /\ IsIntegerPartOf(d[AsStr(LabelCell(t, i))].i, ValueCell(t, i))

ReservedKeys == {"facilityAdminRef", "timestamp", "currentMonth"} \cup RefKeys

\* The ten labels print as ten different strings, none of them a key the
\* handler sets itself.
DistinctFreeLabels(t) ==
    /\ \A i, j \in 1..NumRows : i # j => AsStr(LabelCell(t, i)) # AsStr(LabelCell(t, j))
    /\ \A i \in 1..NumRows : AsStr(LabelCell(t, i)) \notin ReservedKeys

\* The body is absent or lacks one of the three required fields.
LacksRequired(b) == b.kind \in {"absent", "null"} \/ (b.kind = "json" /\ b.keys # RequiredKeys)

NoSideEffects(t) ==
    /\ ~fx[t].init /\ ~fx[t].fetch /\ ~fx[t].lookup /\ ~fx[t].write /\ fx[t].delete = "none"
    /\ DocsOf(reqno[t]) = {}

(***************************************************************************)
(* C1.  On a process with valid credentials, a request whose sheet has a   *)
(* null or a negative value in one of the ten value cells is answered 400, *)
(* and it neither attempts the write nor adds a document.                  *)
(***************************************************************************)
C1_InvalidBlockRejected ==
    \A t \in Threads :
        (creds = "valid" /\ NullOrNegative(t)) =>
            /\ ~fx[t].write
            /\ DocsOf(reqno[t]) = {}
            /\ pc[t] = "done" => resp[t].status = 400

(***************************************************************************)
(* C2.  When the write succeeded and the object path does not parse from   *)
(* the URL, the response is 200 and carries the id of the written          *)
(* document.                                                               *)
(***************************************************************************)
C2_PathFailureStill200 ==
    \A t \in Threads :
        (pc[t] = "done" /\ Stored(t) /\ extract_file_path(body[t].file_url) = None) =>
            /\ resp[t].status = 200
            /\ resp[t].document_id = doc_id[t]

(***************************************************************************)
(* C3.  A request whose body is absent or lacks user_id, file_url or       *)
(* current_month is answered 400 and performs no side effect.              *)
(***************************************************************************)
C3_MissingFields400 ==
    \A t \in Threads :
        (pc[t] = "done" /\ LacksRequired(body[t])) =>
            /\ resp[t].status = 400
            /\ NoSideEffects(t)

(***************************************************************************)
(* C4.  Every request adds at most one document; a request answered 200    *)
(* added exactly one and the response carries its id; a document, once     *)
(* added, is never changed or removed.                                     *)
(***************************************************************************)
C4_Counts ==
    /\ \A n \in 1..served : Cardinality(DocsOf(n)) <= 1
    /\ \A i, j \in 1..Len(data) : data[i].id = data[j].id => i = j
    /\ \A t \in Threads :
          (pc[t] = "done" /\ resp[t].status = 200) =>
              /\ Cardinality(DocsOf(reqno[t])) = 1
              /\ \A i \in DocsOf(reqno[t]) : resp[t].document_id = Some(data[i].id)

C4_Kept == \A i \in 1..Len(data) : i <= Len(data') /\ data'[i] = data[i]

C4_WriteOnce == [](C4_Counts) /\ [][C4_Kept]_vars

C4_Witness == \E t \in Threads : pc[t] = "done" /\ resp[t].status = 200 /\ Len(data) = MaxRequests

(***************************************************************************)
(* C5.  When the write succeeded, the path parsed and the blob deletion    *)
(* failed, the response is 200 with the id the write returned, and the     *)
(* document is in the collection.                                          *)
(***************************************************************************)
C5_DeleteFailureIs200 ==
    \A t \in Threads :
        (pc[t] = "done" /\ doc_id[t] # None /\ fx[t].delete = "failed") =>
            /\ extract_file_path(body[t].file_url) # None
            /\ resp[t].status = 200
            /\ resp[t].document_id = doc_id[t]
            /\ Stored(t)

C5_Witness ==
    \E t \in Threads :
        /\ pc[t] = "done" /\ fx[t].delete = "failed"
        /\ extract_file_path(body[t].file_url)[1] \notin bucket

(***************************************************************************)
(* C6.  A 200 response that says the file was deleted is given only when   *)
(* this request deleted the object, and the response to a request whose    *)
(* blob deletion failed does not say the file was deleted.                 *)
(***************************************************************************)
C6_DeletionReported ==
    \A t \in Threads :
        /\ (pc[t] = "done" /\ resp[t].status = 200 /\ resp[t].text = DeletedMessage) =>
              fx[t].delete = "deleted"
        /\ (pc[t] = "done" /\ fx[t].delete = "failed") => resp[t].text # DeletedMessage

(***************************************************************************)
(* C7.  The write is attempted only after the fetch succeeded and the      *)
(* deletion only after the request's write succeeded; a fetch failure is   *)
(* answered 500 with no document, a write failure 500 with no deletion.    *)
(***************************************************************************)
C7_Gated ==
    \A t \in Threads :
        /\ fx[t].write => (fx[t].fetch /\ df[t] # NoFrame)
        /\ fx[t].delete # "none" => Stored(t)
        /\ (pc[t] = "done" /\ fx[t].fetch /\ df[t] = NoFrame) =>
              (resp[t].status = 500 /\ ~fx[t].write /\ DocsOf(reqno[t]) = {})
        /\ (pc[t] = "done" /\ df[t] # NoFrame /\ doc_id[t] = None) =>
              (resp[t].status = 500 /\ fx[t].delete = "none")

C7_Witness ==
    \E t \in Threads : pc[t] = "done" /\ fx[t].write /\ doc_id[t] = None /\ fx[t].delete = "none"

(***************************************************************************)
(* C8.  As claimed: for every valid block and every choice of labels the   *)
(* extracted mapping has ten entries, each row's label mapping to the      *)
(* row's value as an integer, and the stored document has the ten pairs.   *)
(***************************************************************************)
TenPairs(t) ==
    /\ Cardinality(DOMAIN ExtractedRecord(df[t])) = NumRows
    /\ \A i \in 1..NumRows : RowIn(t, i, ExtractedRecord(df[t]))
    /\ \A i \in 1..NumRows : RowIn(t, i, StoredFields(t))

C8_AnyLabels == \A t \in Threads : (Stored(t) /\ ValidBlock(t)) => TenPairs(t)

(***************************************************************************)
(* C8, amended.  The same for every valid block whose ten labels print as  *)
(* ten different strings, none of them one of the keys the handler sets    *)
(* (facilityAdminRef, timestamp, currentMonth, the three admin refs).      *)
(***************************************************************************)
C8_DistinctLabels ==
    \A t \in Threads : (Stored(t) /\ ValidBlock(t) /\ DistinctFreeLabels(t)) => TenPairs(t)

C8_Witness ==
    \E t \in Threads :
        /\ Stored(t) /\ ValidBlock(t) /\ DistinctFreeLabels(t)
        /\ \E i \in 1..NumRows : ValueCell(t, i).k = "flt" /\ LabelCell(t, i).k = "int"

(***************************************************************************)
(* C9.  Under concurrent requests with different users and URLs, a request *)
(* whose collaborators work gets the status and stores the document it     *)
(* gets when it runs alone.                                                *)
(***************************************************************************)
\* The request of thread t run alone on a process with valid credentials,
\* the fetch returning df[t] and the database answering.
AloneStatus(t) ==
    IF ValuesRaise(df[t]) THEN 500
    ELSE IF extract_file_path(body[t].file_url) = None THEN 400
    ELSE 200

AloneFields(t) ==
    ComposeData(body[t].user_id, df[t],
                fetch_user_references(body[t].user_id, TRUE, TRUE), body[t].current_month)

C9_Isolated ==
    \A t, u \in Threads :
        ( /\ t # u /\ pc[t] = "done" /\ pc[u] # "idle"
          /\ creds = "valid" /\ df[t] # NoFrame /\ ~fx[t].db_error
          /\ body[u].keys = RequiredKeys
          /\ body[u].user_id # body[t].user_id /\ body[u].file_url # body[t].file_url ) =>
            /\ resp[t].status = AloneStatus(t)
            /\ (~ValuesRaise(df[t])) => (Stored(t) /\ StoredFields(t) = AloneFields(t))

(***************************************************************************)
(* C10.  When initialize_firebase has returned, the credential file it     *)
(* wrote is no longer on disk.                                             *)
(***************************************************************************)
C10_CredFileRemoved ==
    \A t \in Threads : (fx[t].wrote_file /\ fx[t].init_returned) => ~credFile.exists

====
